---- MODULE Spec2Model ----
(***************************************************************************)
(* Face detection with a Haar cascade: the web application (app.py) and    *)
(* the command-line frame loops (face_detector.py).                        *)
(*                                                                         *)
(* Scale factors are held in tenths (11 is 1.1).  JSON values of a         *)
(* websocket message are records [k, v]: k says whether the key is absent, *)
(* a JSON number, a JSON string holding a number, or a value float()/int() *)
(* cannot parse; v is the number in tenths.                                *)
(*                                                                         *)
(* utils/detector.py (class FaceDetector) is not among the sources; its    *)
(* three operations are modelled from the specification of DetectionParams *)
(* and Detector.                                                           *)
(***************************************************************************)
EXTENDS Integers, Sequences, FiniteSets, TLC

\* ------------------------------------------------------------------ bounds
NumConns == 2
MaxFrames == 2

\* --------------------------------------------------------------- constants
SCALE_FACTOR == 11
MIN_NEIGHBORS == 5
WsDefaultScaleFactor == 11
WsDefaultMinNeighbors == 5
FormDefaultScaleFactor == 11
FormDefaultMinNeighbors == 5

Conns == 1..NumConns

\* ------------------------------------------------------------ input values
Absent == [k |-> "absent", v |-> 0]
Num(n) == [k |-> "num", v |-> n]
Str(n) == [k |-> "str", v |-> n]
Bad == [k |-> "bad", v |-> 0]

ScaleInputs == {Absent, Num(10), Str(13), Bad}
NeighborInputs == {Absent, Num(37), Str(37)}

NoFrame == [k |-> "absent", parts |-> <<>>]
NonString == [k |-> "nonstr", parts |-> <<>>]
Text(parts) == [k |-> "str", parts |-> parts]
FrameInputs ==
    {NoFrame, NonString, Text(<<"hdr", "img">>), Text(<<"junk">>), Text(<<"badpad">>)}

\* A lone connection is sent every message; with several connections open the
\* messages are those that matter for interference: valid parameter values,
\* with and without a frame.
SoloMessages ==
    [scale_factor : ScaleInputs, min_neighbors : NeighborInputs, frame : FrameInputs]
CrowdMessages ==
    [scale_factor : {Absent, Num(11), Str(13)}, min_neighbors : {Absent},
     frame : {NoFrame, Text(<<"hdr", "img">>)}]
Messages(cs) == IF Cardinality(cs) = 1 THEN SoloMessages ELSE CrowdMessages

\* ------------------------------------------------- conversions of app.py
\* float(x): a JSON number or a numeric string converts, anything else raises.
Float_(raw) ==
    IF raw.k \in {"num", "str"} THEN [raised |-> FALSE, v |-> raw.v]
    ELSE [raised |-> TRUE, v |-> 0]

\* int(x): a JSON number is truncated towards zero, a string converts only
\* when it is an integer literal, anything else raises.
Int_(raw) ==
    CASE raw.k = "num" ->
           [raised |-> FALSE,
            v |-> IF raw.v >= 0 THEN raw.v \div 10 ELSE -((-raw.v) \div 10)]
      [] raw.k = "str" /\ raw.v % 10 = 0 -> [raised |-> FALSE, v |-> raw.v \div 10]
      [] OTHER -> [raised |-> TRUE, v |-> 0]

\* base64.b64decode on one chunk of text: "img" is the encoding of an image,
\* "junk" and the data-URI header decode to bytes that are no image,
\* "badpad" has incorrect padding and raises binascii.Error.
B64Decode(chunk) ==
    CASE chunk = "img" -> [raised |-> FALSE, bytes |-> "image"]
      [] chunk = "badpad" -> [raised |-> TRUE, bytes |-> "none"]
      [] OTHER -> [raised |-> FALSE, bytes |-> "garbage"]

\* cv2.imdecode: the image, None when the bytes are no encoded image, and an
\* assertion error (cv2.error) on an empty buffer.
ImDecode(bytes) ==
    CASE bytes = "image" -> [raised |-> FALSE, image |-> "image"]
      [] bytes = "empty" -> [raised |-> TRUE, image |-> "None"]
      [] OTHER -> [raised |-> FALSE, image |-> "None"]

\* if "," in frame_data: frame_data = frame_data.split(",")[1]
StripPrefix(parts) == IF Len(parts) > 1 THEN parts[2] ELSE parts[1]

\* Lines 207-215 of websocket_detect (and 143-148 of detect_base64).
DecodeFrame(frame_data) ==
    IF frame_data.k # "str" THEN [raised |-> TRUE, image |-> "None"]
    ELSE LET b == B64Decode(StripPrefix(frame_data.parts))
         IN IF b.raised THEN [raised |-> TRUE, image |-> "None"]
            ELSE ImDecode(b.bytes)

\* ------------------------------------------ FaceDetector (utils/detector.py)
\* DetectionParams.validate: the scale factor must exceed 1.0.
validate_Any(scale, neighbors) == TRUE

validate(scale, neighbors) == scale > 10

\* FaceDetector(scale_factor=None, min_neighbors=None, ...): None selects the
\* value of config.py; the parameters are validated on construction.
FaceDetector(scale, neighbors) ==
    LET s == IF scale.k = "absent" THEN SCALE_FACTOR ELSE scale.v
        n == IF neighbors.k = "absent" THEN MIN_NEIGHBORS ELSE neighbors.v
    IN [raised |-> ~validate(s, n),
        detector |-> [scale_factor |-> s, min_neighbors |-> n]]

\* set_detection_params(scale_factor, min_neighbors): update-or-reject; on a
\* validation failure the previous values stay and the caller gets the failure.
set_detection_params(d, scale, neighbors) ==
    IF validate(scale, neighbors)
    THEN [raised |-> FALSE,
          detector |-> [scale_factor |-> scale, min_neighbors |-> neighbors]]
    ELSE [raised |-> TRUE, detector |-> d]

\* detect_faces(image): one classifier call with the detector's own parameters.
detect_faces(d, caller) ==
    [by |-> caller, scale_factor |-> d.scale_factor, min_neighbors |-> d.min_neighbors]


\* ------------------------------------------------------------------- state
VARIABLES
    program,        \* "web" (app.py under uvicorn) or "cli" (face_detector.py)
    clients,        \* the websocket connections the clients of this run open
    detector,       \* the FaceDetector instance of the process
    detWriter,      \* who set the detector's parameters last
    lastDetect,     \* the latest detect_faces call: caller and parameters used
    ws_pc,          \* per connection: "closed", "recv", "send", "ended"
    scale_factor,   \* per connection: local scale_factor of websocket_detect
    min_neighbors,  \* per connection: local min_neighbors of websocket_detect
    http,           \* the detect_image request suspended at await file.read()
    ev,             \* the latest handler run: who, what it received, what it did
    lpc,            \* face_detector.py: position in main / run_webcam / run_video
    mode,           \* --source
    source,         \* the input: can it be opened, how many frames it holds
    cap,            \* cv2.VideoCapture: opened, release() calls, frames read
    out,            \* cv2.VideoWriter: created (out is not None), release() calls, frames written
    win,            \* display: imshow calls, destroyAllWindows calls
    paused,         \* run_video: paused
    frame_count,    \* run_video: frame_count
    total_frames,   \* run_video: total_frames
    delay,          \* the argument of cv2.waitKey, in milliseconds
    progress,       \* run_video: progress, the fraction n / d
    fps,            \* fps_start_time, fps_frame_count, current_fps (frames / elapsed),
                    \* the clock reading of the latest _update_fps, and the clock
    screenshot_count, \* run_webcam: screenshot_count
    shots,          \* the paths handed to cv2.imwrite by run_webcam, in order
    key,            \* the key returned by the latest waitKey, and the loop's state then
    stop            \* what ended the frame loop, and the loop's state at that moment

webVars == <<ws_pc, scale_factor, min_neighbors, http, ev>>
cliVars == <<lpc, mode, source, cap, out, win, paused, frame_count, total_frames,
             delay, progress, fps, screenshot_count, shots, key, stop>>
vars == <<program, clients, detector, detWriter, lastDetect, webVars, cliVars>>

HttpCaller == NumConns + 1
CliCaller == NumConns + 2
Nobody == NumConns + 3
NoDetect == [by |-> Nobody, scale_factor |-> 0, min_neighbors |-> 0]
NoMessage == [scale_factor |-> Absent, min_neighbors |-> Absent, frame |-> NoFrame]
Event(who, kind, data, detected, outcome) ==
    [who |-> who, kind |-> kind, data |-> data, detected |-> detected, outcome |-> outcome]

HttpIdle == [pc |-> "idle", scale_factor |-> 0, min_neighbors |-> 0, file |-> "none"]

\* -------------------------------------------------- websocket_detect (app.py)
\* Lines 199-203: the parameter keys of a message, in order; float() or int()
\* raising leaves the function through the except clause of line 238.
WsUpdateParams_Forget(scale, neighbors, data) ==
    LET f == Float_(data.scale_factor)
        n == Int_(data.min_neighbors)
        s1 == IF data.scale_factor.k # "absent" /\ ~f.raised THEN f.v
              ELSE WsDefaultScaleFactor
    IN IF data.scale_factor.k # "absent" /\ f.raised
       THEN [raised |-> TRUE, scale_factor |-> scale, min_neighbors |-> neighbors]
       ELSE IF data.min_neighbors.k # "absent" /\ n.raised
       THEN [raised |-> TRUE, scale_factor |-> s1, min_neighbors |-> neighbors]
       ELSE [raised |-> FALSE, scale_factor |-> s1,
             min_neighbors |-> IF data.min_neighbors.k # "absent" THEN n.v
                               ELSE WsDefaultMinNeighbors]

WsUpdateParams_Late(scale, neighbors, data) ==
    [raised |-> FALSE, scale_factor |-> scale, min_neighbors |-> neighbors]

WsUpdateParams(scale, neighbors, data) ==
    LET f == Float_(data.scale_factor)
        n == Int_(data.min_neighbors)
        s1 == IF data.scale_factor.k # "absent" /\ ~f.raised THEN f.v ELSE scale
    IN IF data.scale_factor.k # "absent" /\ f.raised
       THEN [raised |-> TRUE, scale_factor |-> scale, min_neighbors |-> neighbors]
       ELSE IF data.min_neighbors.k # "absent" /\ n.raised
       THEN [raised |-> TRUE, scale_factor |-> s1, min_neighbors |-> neighbors]
       ELSE [raised |-> FALSE, scale_factor |-> s1,
             min_neighbors |-> IF data.min_neighbors.k # "absent" THEN n.v
                               ELSE neighbors]

\* Lines 217-226: set the shared detector from the caller's values, then
\* detect; there is no await between the two calls.
UpdateAndDetect_NoUpdate(d, scale, neighbors, caller) ==
    [raised |-> FALSE, detector |-> d, call |-> detect_faces(d, caller)]

UpdateAndDetect(d, scale, neighbors, caller) ==
    LET u == set_detection_params(d, scale, neighbors)
    IN IF u.raised THEN [raised |-> TRUE, detector |-> u.detector, call |-> NoDetect]
       ELSE [raised |-> FALSE, detector |-> u.detector,
             call |-> detect_faces(u.detector, caller)]

\* Lines 191-192, 201, 203: the parameters are locals of one coroutine.
StoreLocal_Shared(locals, c, value) == [x \in DOMAIN locals |-> value]

StoreLocal(locals, c, value) == [locals EXCEPT ![c] = value]

\* Line 188 to the first receive_json.
WsAccept(c) ==
    /\ program = "web"
    /\ UNCHANGED <<program, clients, cliVars>>
    /\ c \in clients
    /\ ws_pc[c] = "closed"
    /\ ws_pc' = [ws_pc EXCEPT ![c] = "recv"]
    /\ scale_factor' = StoreLocal(scale_factor, c, WsDefaultScaleFactor)
    /\ min_neighbors' = StoreLocal(min_neighbors, c, WsDefaultMinNeighbors)
    /\ ev' = Event(c, "accept", NoMessage, FALSE, "none")
    /\ UNCHANGED <<detector, detWriter, lastDetect, http>>

\* One pass of the loop body, from the return of receive_json (line 197) to
\* the next await: send_json (line 229), receive_json again, or the exit
\* through except Exception (line 238).
WsReceive(c) ==
    /\ program = "web"
    /\ UNCHANGED <<program, clients, cliVars>>
    /\ ws_pc[c] = "recv"
    /\ \E data \in Messages(clients) :
         LET p == WsUpdateParams(scale_factor[c], min_neighbors[c], data)
             f == DecodeFrame(data.frame)
             u == UpdateAndDetect(detector, p.scale_factor, p.min_neighbors, c)
             hasFrame == ~p.raised /\ data.frame.k # "absent"
             hasImage == hasFrame /\ ~f.raised /\ f.image # "None"
             detected == hasImage /\ ~u.raised
             outcome == CASE p.raised -> "raised"
                          [] ~hasFrame -> "noframe"
                          [] f.raised -> "raised"
                          [] ~hasImage -> "noimage"
                          [] u.raised -> "raised"
                          [] OTHER -> "result"
         IN /\ scale_factor' = StoreLocal(scale_factor, c, p.scale_factor)
            /\ min_neighbors' = StoreLocal(min_neighbors, c, p.min_neighbors)
            /\ detector' = IF hasImage THEN u.detector ELSE detector
            /\ detWriter' = IF detected THEN c ELSE detWriter
            /\ lastDetect' = IF detected THEN u.call ELSE lastDetect
            /\ ws_pc' = [ws_pc EXCEPT ![c] =
                           CASE outcome = "raised" -> "ended"
                             [] outcome = "result" -> "send"
                             [] OTHER -> "recv"]
            /\ ev' = Event(c, "ws", data, detected, outcome)
    /\ UNCHANGED http

\* send_json (line 229) completes and the loop returns to receive_json.
WsSent(c) ==
    /\ program = "web"
    /\ UNCHANGED <<program, clients, cliVars>>
    /\ ws_pc[c] = "send"
    /\ ws_pc' = [ws_pc EXCEPT ![c] = "recv"]
    /\ ev' = Event(c, "sent", NoMessage, FALSE, "none")
    /\ UNCHANGED <<detector, detWriter, lastDetect, scale_factor, min_neighbors, http>>

\* The transport signals disconnect: receive_json or send_json raises and
\* the function ends through lines 236-239.
WsDisconnect(c) ==
    /\ program = "web"
    /\ UNCHANGED <<program, clients, cliVars>>
    /\ ws_pc[c] \in {"recv", "send"}
    /\ ws_pc' = [ws_pc EXCEPT ![c] = "ended"]
    /\ ev' = Event(c, "disconnect", NoMessage, FALSE, "none")
    /\ UNCHANGED <<detector, detWriter, lastDetect, scale_factor, min_neighbors, http>>

\* ------------------------------------ detect_image, detect_base64 (app.py)
FormScaleInputs(cs) ==
    IF Cardinality(cs) = 1 THEN {Absent, Num(10), Num(13)} ELSE {Absent, Num(13)}
FormNeighborInputs == {Absent}
FileInputs(cs) == IF Cardinality(cs) = 1 THEN {"image", "garbage"} ELSE {"image"}
ImageDataInputs(cs) == {m.frame : m \in {x \in Messages(cs) : x.frame.k = "str"}}

\* scale_factor: float = Form(1.1), min_neighbors: int = Form(5)
FormFloat(raw) == IF raw.k = "absent" THEN FormDefaultScaleFactor ELSE raw.v
FormInt(raw) == IF raw.k = "absent" THEN FormDefaultMinNeighbors ELSE raw.v \div 10

\* Lines 93-107 and 150-164: a None image is answered with 400, otherwise
\* the shared detector is set and called; any exception is answered with 500
\* by the except clause (lines 124-128, 175-179).
HttpDetect(d, img, scale, neighbors) ==
    LET u == UpdateAndDetect(d, scale, neighbors, HttpCaller)
    IN CASE img.raised -> [status |-> 500, detected |-> FALSE, detector |-> d, call |-> NoDetect]
         [] img.image = "None" ->
              [status |-> 400, detected |-> FALSE, detector |-> d, call |-> NoDetect]
         [] u.raised -> [status |-> 500, detected |-> FALSE, detector |-> d, call |-> NoDetect]
         [] OTHER -> [status |-> 200, detected |-> TRUE, detector |-> u.detector, call |-> u.call]

HttpMessage(sf, mn, frame) == [scale_factor |-> sf, min_neighbors |-> mn, frame |-> frame]

\* detect_image up to its await file.read() (line 89).
HttpImageBegin ==
    /\ program = "web"
    /\ UNCHANGED <<program, clients, cliVars>>
    /\ http.pc = "idle"
    /\ \E sf \in FormScaleInputs(clients), mn \in FormNeighborInputs,
          file \in FileInputs(clients) :
         /\ http' = [pc |-> "reading", scale_factor |-> FormFloat(sf),
                     min_neighbors |-> FormInt(mn), file |-> file]
         /\ ev' = Event(HttpCaller, "http_image_begin", HttpMessage(sf, mn, NoFrame), FALSE, "none")
    /\ UNCHANGED <<detector, detWriter, lastDetect, ws_pc, scale_factor, min_neighbors>>

\* detect_image from the return of file.read() to the response (lines 90-128).
HttpImageFinish ==
    /\ program = "web"
    /\ UNCHANGED <<program, clients, cliVars>>
    /\ http.pc = "reading"
    /\ LET r == HttpDetect(detector, ImDecode(http.file), http.scale_factor, http.min_neighbors)
       IN /\ detector' = r.detector
          /\ detWriter' = IF r.detected THEN HttpCaller ELSE detWriter
          /\ lastDetect' = IF r.detected THEN r.call ELSE lastDetect
          /\ ev' = Event(HttpCaller, "http_image",
                         HttpMessage(Num(http.scale_factor), Num(10 * http.min_neighbors), NoFrame),
                         r.detected,
                         IF r.status = 200 THEN "200" ELSE IF r.status = 400 THEN "400" ELSE "500")
    /\ http' = HttpIdle
    /\ UNCHANGED <<ws_pc, scale_factor, min_neighbors>>

\* detect_base64 (lines 141-179): no await inside the handler.
HttpBase64 ==
    /\ program = "web"
    /\ UNCHANGED <<program, clients, cliVars>>
    /\ \E sf \in FormScaleInputs(clients), mn \in FormNeighborInputs,
          image_data \in ImageDataInputs(clients) :
         LET r == HttpDetect(detector, DecodeFrame(image_data), FormFloat(sf), FormInt(mn))
         IN /\ detector' = r.detector
            /\ detWriter' = IF r.detected THEN HttpCaller ELSE detWriter
            /\ lastDetect' = IF r.detected THEN r.call ELSE lastDetect
            /\ ev' = Event(HttpCaller, "http_base64", HttpMessage(sf, mn, image_data), r.detected,
                           IF r.status = 200 THEN "200" ELSE IF r.status = 400 THEN "400" ELSE "500")
    /\ UNCHANGED <<ws_pc, scale_factor, min_neighbors, http>>

\* ----------------------------------------------- face_detector.py: inputs
CliScaleInputs == {Num(11), Num(10), Num(13)}
Keys == {"q", "p", "s", "none"}
NoStop == [cause |-> "none", at |-> "none", paused |-> FALSE, reads |-> 0]

\* try: ... finally: (lines 133/172, 304/361): every way out of the loop
\* passes through the finally block.
ExitTarget_Escapes(cause) == IF cause = "exception" THEN "crashed" ELSE "finally"

\* Without the break of lines 139 and 311 the failed read would fall
\* through to process_frame.
ExitTarget_FallsThrough(cause) ==
    IF cause \in {"eos", "capture"} THEN "process" ELSE "finally"

ExitTarget(cause) == "finally"

\* cap.get(cv2.CAP_PROP_FPS), in hundredths of a frame per second: 25 and
\* 29.97 frames per second, 0 where the rate is not known, a negative value,
\* and the 2000 a file with a broken time base reports.
NativeRates == {-100, 0, 2500, 2997, 200000}
DefaultDelay == 33
WebcamWait == 1

\* Line 298: delay = int(1000 / fps) if fps > 0 else 33
Delay(rate) == IF rate > 0 THEN 100000 \div rate ELSE DefaultDelay

\* cv2.waitKey(delay): with delay > 0 it returns after delay milliseconds,
\* with no key if none was pressed; with delay <= 0 it returns only once a
\* key is pressed.
KeyArrives(k, wait) == k = "none" => wait > 0

\* Lines 164-167: os.path.join(config.OUTPUT_DIR, f"screenshot_{screenshot_count}.jpg")
ScreenshotPath_Fixed(n) == <<"output", "screenshot", "jpg">>

ScreenshotPath(n) == <<"output", "screenshot", n, "jpg">>

\* Lines 158-170: key handling of run_webcam.
WebcamKey_NoScreenshot(k) ==
    CASE k = "q" -> "quit"
      [] OTHER -> "nothing"

WebcamKey(k) ==
    CASE k = "q" -> "quit"
      [] k = "s" -> "screenshot"
      [] OTHER -> "nothing"

\* Lines 354-359: key handling of run_video, the same whether paused or not.
VideoKey_ResumeFirst(k, isPaused) ==
    CASE k = "q" /\ ~isPaused -> "quit"
      [] k = "q" /\ isPaused -> "toggle"
      [] k = "p" -> "toggle"
      [] OTHER -> "nothing"

VideoKey(k, isPaused) ==
    CASE k = "q" -> "quit"
      [] k = "p" -> "toggle"
      [] OTHER -> "nothing"

\* Line 306 of run_video, "if not paused:": a paused loop skips the read and
\* everything done with the frame; run_webcam has no pause.
SkipsRead_Never(m, isPaused) == FALSE

SkipsRead(m, isPaused) == m = "video" /\ isPaused

\* Lines 344-349 sit inside the "if not paused:" block: a paused pass goes
\* straight to waitKey (line 352) and neither shows nor writes.
AfterSkip_WritesAgain(created) == IF created THEN "write" ELSE "waitkey"

AfterSkip(created) == "waitkey"

\* Line 328: progress = frame_count / total_frames if total_frames > 0 else 0
Progress_Before(count, total) ==
    IF total > 0 THEN [n |-> count - 1, d |-> total] ELSE [n |-> 0, d |-> 1]

Progress(count, total) ==
    IF total > 0 THEN [n |-> count, d |-> total] ELSE [n |-> 0, d |-> 1]

\* Time in tenths of a second.  Between two calls of _update_fps the clock
\* advances by one of TimeSteps; the second time.time() of a call (line 90)
\* reads the clock again, a ClockLag later.
OneSecond == 10
TimeSteps == {4, 10}
ClockLags == {0, 1}
NoFps == [frames |-> 0, elapsed |-> 1]

\* _update_fps (lines 84-92); t1 is the clock at line 85, t2 at line 90.
\* current_fps is kept as the pair frames / elapsed.
_update_fps_Strict(f, t1, t2) ==
    LET count == f.count + 1
        elapsed == t1 - f.start
    IN IF elapsed > OneSecond
       THEN [start |-> t2, count |-> 0, value |-> [frames |-> count, elapsed |-> elapsed],
             at |-> t1, now |-> t2]
       ELSE [start |-> f.start, count |-> count, value |-> f.value, at |-> t1, now |-> t1]

_update_fps(f, t1, t2) ==
    LET count == f.count + 1
        elapsed == t1 - f.start
    IN IF elapsed >= OneSecond
       THEN [start |-> t2, count |-> 0, value |-> [frames |-> count, elapsed |-> elapsed],
             at |-> t1, now |-> t2]
       ELSE [start |-> f.start, count |-> count, value |-> f.value, at |-> t1, now |-> t1]

\* The output directory and the writer are made after the checks of the
\* source have passed (lines 114-129, 264-295; run_image lines 196-205, 225).
SinkCreated_BeforeOpenCheck(status, save) == save

SinkCreated(status, save) == status = "ok" /\ save

\* Lines 152-153 and 348-349, "if out is not None: out.write(...)": the
\* shown frame goes to the writer, when there is one, before the key is read.
AfterShow_SkipsWrite(created) == "waitkey"

AfterShow(created) == IF created THEN "write" ELSE "waitkey"

\* main() (lines 450-475): parse the arguments, build the detector, enter the
\* mode; run_webcam / run_video up to the loop (lines 111-131, 263-302).
Main ==
    /\ program = "cli"
    /\ lpc = "main"
    /\ \E src \in {"webcam", "video", "image"}, save \in BOOLEAN, sf \in CliScaleInputs,
          status \in {"ok", "missing", "unopenable"}, len \in 0..MaxFrames,
          total \in -1..MaxFrames, rate \in NativeRates :
         LET fd == FaceDetector(sf, Absent)
         IN /\ mode' = src
            /\ source' = [status |-> status, frames |-> len, rate |-> rate]
            /\ detector' = fd.detector
            /\ IF fd.raised
               THEN /\ lpc' = "crashed"
                    /\ UNCHANGED <<cap, out, total_frames, delay>>
               ELSE IF status # "ok"
               THEN /\ lpc' = "returned"
                    /\ out' = [created |-> SinkCreated(status, save), released |-> 0,
                               written |-> 0]
                    /\ UNCHANGED <<cap, total_frames, delay>>
               ELSE IF src = "image"
               THEN /\ lpc' = "image"
                    /\ out' = [created |-> SinkCreated(status, save), released |-> 0,
                               written |-> 0]
                    /\ UNCHANGED <<cap, total_frames, delay>>
               ELSE /\ lpc' = "read"
                    /\ cap' = [opened |-> TRUE, released |-> 0, reads |-> 0]
                    /\ out' = [created |-> SinkCreated(status, save), released |-> 0,
                               written |-> 0]
                    /\ total_frames' = IF src = "video" THEN total ELSE 0
                    /\ delay' = IF src = "video" THEN Delay(rate) ELSE WebcamWait
    /\ UNCHANGED <<program, clients, detWriter, lastDetect, webVars, progress, fps, win, paused, frame_count,
                   screenshot_count, shots, key, stop>>

\* run_image (lines 210-244): detect once, save if asked, show, wait for a
\* key, close the window.
RunImage ==
    /\ program = "cli"
    /\ lpc = "image"
    /\ lastDetect' = detect_faces(detector, CliCaller)
    /\ out' = [out EXCEPT !.written = IF out.created THEN 1 ELSE 0]
    /\ win' = [shown |-> 1, destroyed |-> 1]
    /\ lpc' = "returned"
    /\ UNCHANGED <<program, clients, detector, detWriter, webVars, progress, fps, mode, source, cap, paused,
                   frame_count, total_frames, screenshot_count, shots, delay, key, stop>>

\* run_video, line 306: a paused loop skips the read and the processing.
LoopSkip ==
    /\ program = "cli"
    /\ lpc = "read"
    /\ SkipsRead(mode, paused)
    /\ lpc' = AfterSkip(out.created)
    /\ UNCHANGED <<program, clients, detector, detWriter, lastDetect, webVars, progress, fps, mode, source, cap,
                   out, win, paused, frame_count, total_frames, screenshot_count, shots, delay, key, stop>>

\* cap.read() returns a frame (lines 135, 307); run_video counts it (line 313).
LoopReadOk ==
    /\ program = "cli"
    /\ lpc = "read"
    /\ ~SkipsRead(mode, paused)
    /\ cap.reads < (IF mode = "video" THEN source.frames ELSE MaxFrames)
    /\ cap' = [cap EXCEPT !.reads = @ + 1]
    /\ frame_count' = IF mode = "video" THEN frame_count + 1 ELSE frame_count
    /\ lpc' = "process"
    /\ UNCHANGED <<program, clients, detector, detWriter, lastDetect, webVars, progress, fps, mode, source, out,
                   win, paused, total_frames, screenshot_count, shots, delay, key, stop>>

\* cap.read() returns ret = False (lines 137-139, 309-311): the camera failed
\* or the file is exhausted.
LoopReadFail ==
    /\ program = "cli"
    /\ lpc = "read"
    /\ ~SkipsRead(mode, paused)
    /\ mode = "video" => cap.reads = source.frames
    /\ LET cause == IF mode = "video" THEN "eos" ELSE "capture"
       IN /\ stop' = [cause |-> cause, at |-> lpc, paused |-> paused, reads |-> cap.reads]
          /\ lpc' = ExitTarget(cause)
    /\ UNCHANGED <<program, clients, detector, detWriter, lastDetect, webVars, progress, fps, mode, source, cap,
                   out, win, paused, frame_count, total_frames, screenshot_count, shots, delay, key>>

\* process_frame, _update_fps, draw_info (lines 142-146, 316-342).
LoopProcess ==
    /\ program = "cli"
    /\ lpc = "process"
    /\ lastDetect' = detect_faces(detector, CliCaller)
    /\ progress' = IF mode = "video" THEN Progress(frame_count, total_frames) ELSE progress
    /\ \E dt \in TimeSteps, lag \in ClockLags :
         fps' = _update_fps(fps, fps.now + dt, fps.now + dt + lag)
    /\ lpc' = "show"
    /\ UNCHANGED <<program, clients, detector, detWriter, webVars, mode, source, cap, out, win,
                   paused, frame_count, total_frames, screenshot_count, shots, delay, key, stop>>

\* cv2.imshow (lines 149, 345).
LoopShow ==
    /\ program = "cli"
    /\ lpc = "show"
    /\ win' = [win EXCEPT !.shown = @ + 1]
    /\ lpc' = AfterShow(out.created)
    /\ UNCHANGED <<program, clients, detector, detWriter, lastDetect, webVars, progress, fps, mode, source, cap,
                   out, paused, frame_count, total_frames, screenshot_count, shots, delay, key, stop>>

\* out.write (lines 152-153, 348-349).
LoopWrite ==
    /\ program = "cli"
    /\ lpc = "write"
    /\ out' = [out EXCEPT !.written = @ + 1]
    /\ lpc' = "waitkey"
    /\ UNCHANGED <<program, clients, detector, detWriter, lastDetect, webVars, progress, fps, mode, source, cap,
                   win, paused, frame_count, total_frames, screenshot_count, shots, delay, key, stop>>

\* cv2.waitKey and the key handling (lines 156-170, 352-359).
LoopWaitKey ==
    /\ program = "cli"
    /\ lpc = "waitkey"
    /\ \E k \in Keys :
         LET command == IF mode = "video" THEN VideoKey(k, paused) ELSE WebcamKey(k)
         IN /\ KeyArrives(k, delay)
            /\ key' = [k |-> k, paused |-> paused, reads |-> cap.reads]
            /\ IF command = "quit"
               THEN /\ stop' = [cause |-> "quit", at |-> lpc, paused |-> paused,
                                     reads |-> cap.reads]
                    /\ lpc' = ExitTarget("quit")
               ELSE /\ stop' = stop
                    /\ lpc' = "read"
            /\ paused' = IF command = "toggle" THEN ~paused ELSE paused
            /\ screenshot_count' =
                 IF command = "screenshot" THEN screenshot_count + 1 ELSE screenshot_count
            /\ shots' = IF command = "screenshot"
                        THEN Append(shots, ScreenshotPath(screenshot_count))
                        ELSE shots
    /\ UNCHANGED <<program, clients, detector, detWriter, lastDetect, webVars, progress, fps, mode, source, cap,
                   out, win, frame_count, total_frames, delay>>

\* An exception raised by a call inside the try block.
LoopRaise ==
    /\ program = "cli"
    /\ lpc \in {"read", "process", "show", "write", "waitkey"}
    /\ stop' = [cause |-> "exception", at |-> lpc, paused |-> paused, reads |-> cap.reads]
    /\ lpc' = ExitTarget("exception")
    /\ UNCHANGED <<program, clients, detector, detWriter, lastDetect, webVars, progress, fps, mode, source, cap,
                   out, win, paused, frame_count, total_frames, screenshot_count, shots, delay, key>>

\* The finally block (lines 172-177, 361-365); an exception then propagates.
Finally ==
    /\ program = "cli"
    /\ lpc = "finally"
    /\ cap' = [cap EXCEPT !.released = @ + 1]
    /\ out' = [out EXCEPT !.released = IF out.created THEN @ + 1 ELSE @]
    /\ win' = [win EXCEPT !.destroyed = @ + 1]
    /\ lpc' = IF stop.cause = "exception" THEN "crashed" ELSE "returned"
    /\ UNCHANGED <<program, clients, detector, detWriter, lastDetect, webVars, progress, fps, mode, source,
                   paused, frame_count, total_frames, screenshot_count, shots, delay, key, stop>>

\* ----------------------------------------------------------- specification
Init ==
    /\ program \in {"web", "cli"}
    /\ clients \in IF program = "web" THEN {{1}, Conns} ELSE {{}}
    /\ detector = FaceDetector(Absent, Absent).detector
    /\ detWriter = Nobody
    /\ lastDetect = NoDetect
    /\ ws_pc = [c \in Conns |-> "closed"]
    /\ scale_factor = [c \in Conns |-> WsDefaultScaleFactor]
    /\ min_neighbors = [c \in Conns |-> WsDefaultMinNeighbors]
    /\ http = HttpIdle
    /\ ev = Event(Nobody, "init", NoMessage, FALSE, "none")
    /\ lpc = "main"
    /\ mode = "none"
    /\ source = [status |-> "ok", frames |-> 0, rate |-> 0]
    /\ cap = [opened |-> FALSE, released |-> 0, reads |-> 0]
    /\ out = [created |-> FALSE, released |-> 0, written |-> 0]
    /\ win = [shown |-> 0, destroyed |-> 0]
    /\ paused = FALSE
    /\ frame_count = 0
    /\ total_frames = 0
    /\ delay = 0
    /\ progress = [n |-> 0, d |-> 1]
    /\ fps = [start |-> 0, count |-> 0, value |-> NoFps, at |-> 0, now |-> 0]
    /\ screenshot_count = 0
    /\ shots = <<>>
    /\ key = [k |-> "none", paused |-> FALSE, reads |-> 0]
    /\ stop = NoStop

Next ==
    \/ \E c \in Conns : WsAccept(c)
    \/ \E c \in Conns : WsReceive(c)
    \/ \E c \in Conns : WsSent(c)
    \/ \E c \in Conns : WsDisconnect(c)
    \/ HttpImageBegin
    \/ HttpImageFinish
    \/ HttpBase64
    \/ Main
    \/ RunImage
    \/ LoopSkip
    \/ LoopReadOk
    \/ LoopReadFail
    \/ LoopProcess
    \/ LoopShow
    \/ LoopWrite
    \/ LoopWaitKey
    \/ LoopRaise
    \/ Finally

Spec == Init /\ [][Next]_vars

\* ------------------------------------------------------------------ claims
Present(raw) == raw.k # "absent"
IsImageFrame(frame) == frame.k = "str" /\ frame.parts[Len(frame.parts)] = "img"
Open(c) == ws_pc[c] \in {"recv", "send"}

\* C1: a websocket message that carries parameter keys and a frame is detected
\* with the values of those keys: the detect call of that message uses the
\* message's scale_factor and (truncated) min_neighbors.
C1_UpdateThenDetect ==
    (ev.kind = "ws" /\ ev.detected) =>
        /\ lastDetect.by = ev.who
        /\ Present(ev.data.scale_factor) =>
             lastDetect.scale_factor = ev.data.scale_factor.v
        /\ Present(ev.data.min_neighbors) =>
             lastDetect.min_neighbors = ev.data.min_neighbors.v \div 10

C1_Witness ==
    /\ ev.kind = "ws" /\ ev.detected
    /\ Present(ev.data.scale_factor) /\ Present(ev.data.min_neighbors)
    /\ lastDetect.scale_factor # WsDefaultScaleFactor
    /\ lastDetect.min_neighbors # WsDefaultMinNeighbors

\* C2: whatever the interleaving of sessions and HTTP requests, every detect
\* call runs with the parameters of its own caller: the session's current
\* scale_factor and min_neighbors, or the request's form values.
C2_OwnParamsAtDetect ==
    ev.detected =>
        /\ lastDetect.by = ev.who
        /\ ev.kind = "ws" =>
             /\ lastDetect.scale_factor = scale_factor[ev.who]
             /\ lastDetect.min_neighbors = min_neighbors[ev.who]
        /\ ev.kind \in {"http_image", "http_base64"} =>
             /\ lastDetect.scale_factor =
                  IF Present(ev.data.scale_factor) THEN ev.data.scale_factor.v
                  ELSE FormDefaultScaleFactor
             /\ lastDetect.min_neighbors =
                  IF Present(ev.data.min_neighbors) THEN ev.data.min_neighbors.v \div 10
                  ELSE FormDefaultMinNeighbors

C2_Witness ==
    /\ ev.kind = "ws" /\ ev.detected
    /\ scale_factor[ev.who] # WsDefaultScaleFactor
    /\ \E d \in Conns \ {ev.who} : Open(d) /\ scale_factor[d] # scale_factor[ev.who]

C4_MalformedFrameReported ==
    (/\ ev.kind = "ws"
     /\ ~Present(ev.data.scale_factor) /\ ~Present(ev.data.min_neighbors)
     /\ ev.data.frame.k = "str" /\ ~IsImageFrame(ev.data.frame))
        => (ev.outcome = "error" /\ Open(ev.who))

\* C5 as stated: a websocket message produces a response exactly when it
\* carries a frame.
C5_OneResponsePerFrame ==
    ev.kind = "ws" =>
        (Present(ev.data.frame) <=> (ev.outcome = "result" /\ ws_pc[ev.who] = "send"))

\* C6: a key that a message omits keeps its value: the session's variable is
\* unchanged by that message, and a frame of that message is detected with
\* the value the session held before it.
C6_ParamsPersist ==
    [][\A c \in Conns :
         (ev'.kind = "ws" /\ ev'.who = c) =>
             /\ ~Present(ev'.data.scale_factor) =>
                  /\ scale_factor'[c] = scale_factor[c]
                  /\ ev'.detected => lastDetect'.scale_factor = scale_factor[c]
             /\ ~Present(ev'.data.min_neighbors) =>
                  /\ min_neighbors'[c] = min_neighbors[c]
                  /\ ev'.detected => lastDetect'.min_neighbors = min_neighbors[c]]_vars

C6_Witness ==
    /\ ev.kind = "ws" /\ ev.detected
    /\ ~Present(ev.data.scale_factor) /\ Present(ev.data.min_neighbors)
    /\ scale_factor[ev.who] # WsDefaultScaleFactor
    /\ lastDetect.scale_factor = scale_factor[ev.who]

\* C7 as stated: an invalid parameter update (scale factor <= 1.0 or an
\* unparsable field) changes none of the session's parameters, is reported to
\* the caller, and leaves the session running.
InvalidUpdate(data) ==
    \/ Present(data.scale_factor)
         /\ (data.scale_factor.k = "bad" \/ data.scale_factor.v <= 10)
    \/ Present(data.min_neighbors)
         /\ (data.min_neighbors.k = "bad"
             \/ (data.min_neighbors.k = "str" /\ data.min_neighbors.v % 10 # 0))

C7_AtomicUpdateOrReject ==
    [][\A c \in Conns :
         (ev'.kind = "ws" /\ ev'.who = c /\ InvalidUpdate(ev'.data)) =>
             /\ scale_factor'[c] = scale_factor[c]
             /\ min_neighbors'[c] = min_neighbors[c]
             /\ ev'.outcome = "rejected"
             /\ Open(c)']_vars

InLoop == lpc \in {"read", "process", "show", "write", "waitkey"}
LoopOver == mode \in {"webcam", "video"} /\ stop.cause # "none" /\ lpc \in {"returned", "crashed"}

C9_ReleasedExactlyOnce ==
    /\ InLoop => (cap.released = 0 /\ out.released = 0 /\ win.destroyed = 0)
    /\ LoopOver =>
         /\ cap.released = 1
         /\ win.destroyed = 1
         /\ out.released = IF out.created THEN 1 ELSE 0

C9_Witness ==
    /\ LoopOver /\ stop.cause = "exception" /\ lpc = "crashed"
    /\ out.created /\ out.released = 1 /\ cap.released = 1 /\ cap.reads > 0

\* C10: in video mode a quit key pressed while paused stops the loop at once:
\* nothing is resumed, no further frame is read, and the capture, the writer
\* and the windows are released once.
C10_QuitWhilePaused ==
    (mode = "video" /\ key.k = "q" /\ key.paused) =>
        /\ lpc \in {"finally", "returned"}
        /\ stop.cause = "quit"
        /\ paused
        /\ cap.reads = key.reads
        /\ lpc = "returned" =>
             /\ cap.released = 1
             /\ win.destroyed = 1
             /\ out.released = IF out.created THEN 1 ELSE 0

C10_Witness ==
    /\ mode = "video" /\ key.k = "q" /\ key.paused
    /\ lpc = "returned" /\ cap.reads > 0 /\ cap.reads < source.frames
    /\ out.created /\ out.released = 1 /\ cap.released = 1

\* C11: while run_video is paused nothing is read, detected, shown or
\* written and frame_count stands still; the frame read after the resume is
\* the one that follows the last frame processed before the pause.
C11_PausedDoesNotPoll ==
    [][/\ (mode = "video" /\ (paused \/ paused')) =>
            /\ cap'.reads = cap.reads
            /\ frame_count' = frame_count
            /\ lastDetect' = lastDetect
            /\ win'.shown = win.shown
            /\ out'.written = out.written
       /\ (mode = "video" /\ cap'.reads # cap.reads) =>
            /\ cap'.reads = cap.reads + 1
            /\ win.shown = cap.reads
            /\ key.k = "p" => cap.reads = key.reads]_vars

C11_Witness ==
    /\ mode = "video" /\ ~paused
    /\ key.k = "p" /\ key.paused
    /\ lpc = "process" /\ cap.reads = key.reads + 1 /\ key.reads > 0

\* C12 as stated: a sink that fails on a frame (imshow or out.write raising)
\* does not take the frame loop out of the running state.
C12_SinkFailureIsolated ==
    [][(lpc \in {"show", "write"} /\ stop.cause = "none" /\ stop'.cause = "exception")
         => lpc' \in {"read", "process", "show", "write", "waitkey"}]_vars

\* C13: with total_frames > 0 the progress fraction of run_video never
\* decreases from one frame to the next, and it is 1 exactly on the frame
\* whose frame_count equals total_frames.
ProgressDrawn == mode = "video" /\ total_frames > 0 /\ lpc \in {"show", "write", "waitkey"}

C13_ProgressMonotone ==
    [][/\ (mode = "video" /\ total_frames > 0) =>
            progress.n * progress'.d <= progress'.n * progress.d
       /\ ProgressDrawn' => ((progress'.n = progress'.d) <=> (frame_count' = total_frames'))]_vars

C13_Witness ==
    /\ ProgressDrawn /\ frame_count = total_frames /\ frame_count > 1
    /\ progress.n = progress.d

\* C14 as stated: the progress fraction lies in [0, 1] whatever total frame
\* count the source reports.
C14_ProgressInUnitInterval ==
    /\ 0 <= progress.n
    /\ progress.n <= progress.d

\* C15: a call of _update_fps made less than 1.0 s after the window start
\* returns the value held before, counts the frame and leaves the window
\* start alone; a call made at 1.0 s or more sets the value to (frames of the
\* window, this one included) / elapsed, zeroes the counter and restarts the
\* window.
FpsCall == lpc = "process" /\ lpc' = "show"

C15_FpsHeldWithinWindow ==
    [][FpsCall =>
         LET elapsed == fps'.at - fps.start
         IN IF elapsed < 10
            THEN /\ fps'.value = fps.value
                 /\ fps'.start = fps.start
                 /\ fps'.count = fps.count + 1
            ELSE /\ fps'.value = [frames |-> fps.count + 1, elapsed |-> elapsed]
                 /\ fps'.count = 0
                 /\ fps'.start >= fps'.at]_vars

C15_Witness ==
    /\ lpc = "show"
    /\ fps.value.frames > 0 /\ fps.value.elapsed = 10
    /\ fps.count > 0
    /\ fps.at - fps.start < 10

\* C16: a single-shot detection request whose image payload is malformed
\* (text that is no valid base64, or bytes that decode to no image) is
\* answered with a client error, 400, by detect_image and by detect_base64.
MalformedPayload(img) == img.raised \/ img.image = "None"

C16_MalformedPayloadClientError ==
    [][/\ (http.pc = "reading" /\ http'.pc = "idle" /\ MalformedPayload(ImDecode(http.file)))
            => ev'.outcome = "400"
       /\ (ev'.kind = "http_base64" /\ ev' # ev /\ MalformedPayload(DecodeFrame(ev'.data.frame)))
            => ev'.outcome = "400"]_vars

\* C17: when the camera is not opened or the image or video path is missing
\* or unreadable, the run is over straight after the check: no frame was
\* read, no detection was made, nothing was shown, and no output directory
\* or writer was created.
SourceUnavailable == program = "cli" /\ lpc # "main" /\ source.status # "ok"

C17_UnavailableSourceStartsNothing ==
    SourceUnavailable =>
        /\ lpc \in {"returned", "crashed"}
        /\ cap.reads = 0 /\ frame_count = 0
        /\ lastDetect = NoDetect
        /\ win.shown = 0
        /\ ~out.created /\ out.written = 0
        /\ screenshot_count = 0

C17_Witness ==
    /\ SourceUnavailable /\ lpc = "returned"
    /\ mode = "video" /\ source.status = "unopenable" /\ source.frames > 0

\* C18: once the loop has observed quit, the end of the stream or a failed
\* capture, no further frame is read, detected, shown or recorded, the loop
\* is never re-entered and the recorded stop does not change; the frame of a
\* failed read reaches neither the detector nor a sink.
Stopped == stop.cause # "none"

C18_StoppedStaysStopped ==
    [][/\ Stopped =>
            /\ stop' = stop
            /\ cap'.reads = cap.reads /\ frame_count' = frame_count
            /\ lastDetect' = lastDetect /\ fps' = fps /\ progress' = progress
            /\ win'.shown = win.shown
            /\ out'.written = out.written
            /\ screenshot_count' = screenshot_count
       /\ Stopped' => lpc' \in {"finally", "returned", "crashed"}]_vars

C18_Witness ==
    /\ mode = "webcam" /\ stop.cause = "capture" /\ lpc = "returned"
    /\ cap.reads > 0 /\ win.shown = cap.reads
    /\ out.created /\ out.written = cap.reads

\* C19: one frame is in flight at a time and frames go through in the order
\* they were read: when frame k+1 is read, frames 1..k have each been shown
\* and, when recording, written; nothing is shown or written ahead of the
\* reads; run_video's frame index goes up by exactly 1 with each read.
C19_OneFrameInFlight ==
    [][/\ cap'.reads # cap.reads =>
            /\ cap'.reads = cap.reads + 1
            /\ win.shown = cap.reads
            /\ out.created => out.written = cap.reads
            /\ mode = "video" => (frame_count = cap.reads /\ frame_count' = frame_count + 1)
       /\ mode' \in {"webcam", "video"} =>
            /\ win'.shown <= cap'.reads /\ cap'.reads <= win'.shown + 1
            /\ out'.written <= win'.shown
            /\ out'.created => win'.shown <= out'.written + 1
            /\ win'.shown # win.shown => win'.shown = cap.reads
            /\ out'.written # out.written => out'.written = cap.reads]_vars

C19_Witness ==
    /\ mode = "video" /\ lpc = "process"
    /\ cap.reads = 2 /\ frame_count = 2
    /\ win.shown = 1 /\ out.created /\ out.written = 1

\* A step in which the loop reads a key and acts on it; key'.k is the key.
KeyStep == lpc = "waitkey" /\ lpc' # "waitkey" /\ stop'.cause # "exception"
StaysRunning == lpc' = "read" /\ stop' = stop

ScreenshotStep == KeyStep /\ mode = "webcam" /\ key'.k = "s"
Distinct(seq) == \A i, j \in 1..Len(seq) : i # j => seq[i] # seq[j]

C21_ScreenshotKeepsLoopState ==
    [][/\ ScreenshotStep =>
            /\ StaysRunning /\ ~paused'
            /\ cap' = cap /\ win' = win /\ out' = out
            /\ detector' = detector /\ lastDetect' = lastDetect
            /\ frame_count' = frame_count /\ fps' = fps /\ progress' = progress
            /\ screenshot_count' = screenshot_count + 1
            /\ Len(shots') = Len(shots) + 1
            /\ \A i \in 1..Len(shots) : shots'[i] = shots[i] /\ shots[i] # shots'[Len(shots')]
       /\ Distinct(shots') /\ Len(shots') = screenshot_count']_vars

C21_Witness ==
    /\ mode = "webcam" /\ key.k = "s" /\ lpc = "read" /\ stop.cause = "none"
    /\ Len(shots) = 2 /\ shots[1] # shots[2]
    /\ out.created /\ out.written = cap.reads

\* C22 as stated: inside the loop of run_video the wait handed to waitKey
\* is int(1000 / fps) for a positive native rate and 33 ms otherwise, and it
\* is strictly positive for every native rate, so the loop moves on without
\* a key press.
InVideoLoop == mode = "video" /\ InLoop

C22_DelayPositive ==
    InVideoLoop =>
        /\ delay = IF source.rate > 0 THEN 100000 \div source.rate ELSE 33
        /\ delay > 0

\* C23 as stated: a websocket session ends only when the transport signals
\* disconnect; handling a received message, whatever it holds, never ends
\* the session.
C23_EndsOnlyOnDisconnect ==
    [][\A c \in Conns :
         (ws_pc[c] # "ended" /\ ws_pc'[c] = "ended") =>
             (ev'.kind = "disconnect" /\ ev'.who = c)]_vars

\* C24: with a recording, every frame read is written exactly once, in the
\* pass in which it is shown: whenever the loop is at the top of a pass or at
\* waitKey, and after a quit or the end of the stream, the number of writes
\* equals frame_count in run_video (the number of reads in run_webcam); the
\* writes never run ahead of the shows, and a pass made while paused writes
\* nothing.
AtLoopBoundary ==
    /\ mode \in {"webcam", "video"} /\ out.created
    /\ \/ lpc \in {"read", "waitkey"}
       \/ lpc \in {"finally", "returned"} /\ stop.cause \in {"quit", "eos", "capture"}

C24_WrittenEqualsFrameCount ==
    [][/\ AtLoopBoundary' =>
            /\ out'.written = cap'.reads
            /\ out'.written = win'.shown
            /\ mode' = "video" => out'.written = frame_count'
       /\ (mode = "video" /\ paused) => out'.written = out.written
       /\ out'.written \in {out.written, out.written + 1}]_vars

C24_Witness ==
    /\ mode = "video" /\ out.created /\ lpc = "read"
    /\ key.k = "p" /\ key.paused /\ ~paused
    /\ frame_count > 0 /\ out.written = frame_count /\ frame_count < source.frames

====
